---- MODULE Spec2Model ----
(***************************************************************************)
(* Document ingestion pipeline, vector store and query engine of the       *)
(* chatbot backend (backend/src).  Firestore is modelled as the function   *)
(* docs, the vector-store collection as the set rows.  Every handler is one *)
(* action; the writes it makes on the way are kept in the log of `last`.    *)
(***************************************************************************)
EXTENDS Integers, Sequences, FiniteSets, TLC

VARIABLES backend, docs, rows, conn, last, last_sources, ops, settings_llm, tasks

vars == <<backend, docs, rows, conn, last, last_sources, ops, settings_llm, tasks>>

(* ------------------------------ bounds --------------------------------- *)
MaxChunks == 2      \* chunks the splitter yields for one document
MaxIds == 4         \* chunk ids (uuid4 values) drawn in one behaviour
MaxFaults == 1      \* document-store calls that fail within one handler
MaxOps == 2         \* requests served in one behaviour of the document API

(* --------------------------- program constants -------------------------- *)
Dimension == 384
max_retries == 3
LLM_MODEL == "mixtral-8x7b-32768"
LLM_MAX_TOKENS == 2048
LLM_TEMPERATURE == 70   \* temperatures are in hundredths

NULL == "NULL"          \* Python None, or a field the record does not have
NoneInt == -1           \* None in an integer field (chunkCount)
NoneIds == <<-1>>       \* None in a list field (vectorIds)

DocIds == {"A"}
Backends == {"zilliz", "qdrant"}

\* Groq(model, max_tokens, temperature): a client object with its settings
Groq(model, max_tokens, temperature) ==
  [model |-> model, max_tokens |-> max_tokens, temperature |-> temperature]

\* self.llm of QueryEngine.__init__, which also installs it as Settings.llm
DefaultLlm == Groq(LLM_MODEL, LLM_MAX_TOKENS, LLM_TEMPERATURE)

ProcessingStep == <<"download", "text_extraction", "chunking", "embedding", "storage", "cleanup">>
StepNames == {ProcessingStep[i] : i \in 1..Len(ProcessingStep)}
ProcessingStepStatus == {"pending", "in_progress", "completed", "failed"}

NoStep == [status |-> "none", error |-> NULL]
NoSteps == [s \in StepNames |-> NoStep]

\* "if error:" / "if not text": None and the empty string are both falsy
Truthy(s) == s # NULL /\ s # ""

(* --------------------------- document records --------------------------- *)
\* kind: what the record points at (storageUri with that extension, or inline
\* content); text, n, bad: what the content yields when it is extracted,
\* split and embedded (fixed by the content, the same on every run).
AbsentDoc ==
  [status |-> "absent", chunkCount |-> NoneInt, vectorIds |-> NoneIds, error |-> NULL,
   steps |-> NoSteps, kind |-> "none", text |-> "none", n |-> 0, bad |-> {}]

Exists(doc) == doc.status \notin {"absent", "deleted"}

FileKinds == {"pdf", "txt", "docx"}

\* What an uploaded file / a scraped page can be: readable text that splits
\* into n chunks, of which those in bad get an embedding the store rejects;
\* or no text ("empty"), or only whitespace ("blank").
Shape(k, t, m, b) == [kind |-> k, text |-> t, n |-> m, bad |-> b]

FileShapes ==
  {Shape(k, "ok", m, b) : k \in {"pdf", "txt"}, m \in {MaxChunks}, b \in {{}, {1}, 1..MaxChunks}}
  \cup {Shape("docx", "ok", 1, {})}
  \cup {Shape(k, t, 1, {}) : k \in {"pdf", "txt"}, t \in {"empty", "blank"}}

TextShapes == {Shape("text", "ok", 1, {}), Shape("text", "empty", 1, {})}

(* ------------------------------ vector store ---------------------------- *)
\* A chunk record handed to insert: complete = all of id, document_id,
\* chunk_id, text, embedding are present; dim = len(embedding); nan = some
\* component is NaN.  A stored row keeps the id and the owning document.
Row(rec) == [id |-> rec.id, doc |-> rec.doc]
RowsOf(batch) == {Row(batch[i]) : i \in 1..Len(batch)}
IdsOf(batch) == [i \in 1..Len(batch) |-> batch[i].id]

\* a connect that tries once more than it was told to
connect_with_retry_once_more(retries, firstOk) ==
  LET ok == firstOk \in 1..retries + 1
  IN [ok |-> ok, conn |-> ok, attempts |-> IF ok THEN firstOk ELSE retries + 1]

\* connect_with_retry: firstOk is the attempt at which connections.connect
\* succeeds (0: it never does).  After the last failed attempt it raises.
connect_with_retry(retries, firstOk) ==
  LET ok == firstOk \in 1..retries
  IN [ok |-> ok, conn |-> ok, attempts |-> IF ok THEN firstOk ELSE retries]

\* what one call of connect_with_retry did: the attempts it made and whether
\* the last of them connected
Connects(cw) == <<[n |-> cw.attempts, ok |-> cw.ok]>>

ValidRecord(rec) == rec.complete /\ rec.dim = Dimension /\ ~rec.nan

validate_embeddings(batch) == SelectSeq(batch, ValidRecord)

\* MilvusDB.insert_embeddings.  insOk: the attempt of the insert retry loop at
\* which collection.insert succeeds (0: never, the last failure is re-raised).
Milvus_insert_embeddings(c, rws, batch, firstOk, insOk) ==
  LET none == [rows |-> rws, conn |-> c, ids |-> <<>>, raised |-> FALSE, attempts |-> 0,
               connects |-> <<>>]
  IN IF batch = <<>> THEN none
     ELSE LET cw == IF c THEN [ok |-> TRUE] ELSE connect_with_retry(max_retries, firstOk)
              tried == [none EXCEPT !.connects = IF c THEN <<>> ELSE Connects(cw)]
          IN IF ~cw.ok THEN [tried EXCEPT !.conn = FALSE, !.raised = TRUE]
             ELSE LET valid == validate_embeddings(batch)
                  IN IF valid = <<>> THEN [tried EXCEPT !.conn = TRUE]
                     ELSE IF insOk \notin 1..max_retries
                          THEN [tried EXCEPT !.conn = TRUE, !.raised = TRUE,
                                             !.attempts = max_retries]
                          ELSE [tried EXCEPT !.rows = rws \cup RowsOf(valid), !.conn = TRUE,
                                             !.ids = IdsOf(valid), !.attempts = insOk]

\* QdrantDB.insert_embeddings: no validation; one upsert of every record.
\* What the server does with a malformed point is not decided by this code:
\* qbad = "reject" (the upsert raises, nothing stored) or "accept".
Qdrant_insert_embeddings(rws, batch, insOk, qbad) ==
  LET none == [rows |-> rws, conn |-> TRUE, ids |-> <<>>, raised |-> FALSE, attempts |-> 0,
               connects |-> <<>>]
  IN IF batch = <<>> THEN none
     ELSE IF insOk # 1 \/ (validate_embeddings(batch) # batch /\ qbad = "reject")
          THEN [none EXCEPT !.raised = TRUE, !.attempts = 1]
          ELSE [none EXCEPT !.rows = rws \cup RowsOf(batch), !.ids = IdsOf(batch),
                            !.attempts = 1]

insert_embeddings(b, c, rws, batch, firstOk, insOk, qbad) ==
  IF b = "zilliz" THEN Milvus_insert_embeddings(c, rws, batch, firstOk, insOk)
  ELSE Qdrant_insert_embeddings(rws, batch, IF insOk = 0 THEN 0 ELSE 1, qbad)

\* MilvusDB.delete_by_document_id: the reconnect is outside the try, so a
\* failed reconnect raises; a failed collection.delete returns False.
Milvus_delete_by_document_id(c, rws, d, firstOk, delOk) ==
  LET cw == IF c THEN [ok |-> TRUE] ELSE connect_with_retry(max_retries, firstOk)
  IN IF ~cw.ok THEN [rows |-> rws, conn |-> FALSE, ret |-> FALSE, raised |-> TRUE]
     ELSE IF ~delOk THEN [rows |-> rws, conn |-> TRUE, ret |-> FALSE, raised |-> FALSE]
     ELSE [rows |-> {r \in rws : r.doc # d}, conn |-> TRUE, ret |-> TRUE, raised |-> FALSE]

Qdrant_delete_by_document_id(rws, d, delOk) ==
  IF ~delOk THEN [rows |-> rws, conn |-> TRUE, ret |-> FALSE, raised |-> FALSE]
  ELSE [rows |-> {r \in rws : r.doc # d}, conn |-> TRUE, ret |-> TRUE, raised |-> FALSE]

delete_by_document_id(b, c, rws, d, firstOk, delOk) ==
  IF b = "zilliz" THEN Milvus_delete_by_document_id(c, rws, d, firstOk, delOk)
  ELSE Qdrant_delete_by_document_id(rws, d, delOk)

get_document_chunks(rws, d) == {r \in rws : r.doc = d}

\* MilvusDB.__init__: connect (raises when every attempt fails), then
\* initialize_collection, which creates the collection only when it is missing.
Milvus_init(rws, firstOk) ==
  LET cw == connect_with_retry(max_retries, firstOk)
  IN [rows |-> rws, conn |-> cw.conn, raised |-> ~cw.ok]

\* QdrantDB.__init__: an existing collection is deleted and created anew.
Qdrant_init(rws, firstOk) ==
  IF firstOk = 0 THEN [rows |-> rws, conn |-> FALSE, raised |-> TRUE]
  ELSE [rows |-> {}, conn |-> TRUE, raised |-> FALSE]

get_vector_db(b, rws, firstOk) ==
  IF b = "zilliz" THEN Milvus_init(rws, firstOk) ELSE Qdrant_init(rws, firstOk)

(* --------------------------- document pipeline -------------------------- *)
\* What goes wrong in one invocation (sc):
\*   fail  - the step that raises: "none", "ctor" (the vector-store client
\*           cannot be constructed), "download" (no such blob),
\*           "download_partial" (the transfer breaks after the temporary file
\*           was created), "extract", "chunk", "embed", "embed_mismatch",
\*           "insert" (every insert attempt fails), "insert_retry" (the insert
\*           succeeds at its last attempt);
\*   unl   - os.unlink of the scratch file succeeds;
\*   empty - str(e) of the exceptions raised is the empty string;
\*   F     - the document-store call sites whose call raises;
\*   qbad  - what Qdrant does with a malformed point.
FailPoints == {"none", "ctor", "download", "download_partial", "extract", "chunk",
               "embed", "embed_mismatch", "insert", "insert_retry"}

ExcMsg(sc) == IF sc.empty THEN "" ELSE "error"

InsOk(sc) == IF sc.fail = "insert" THEN 0 ELSE IF sc.fail = "insert_retry" THEN max_retries ELSE 1

\* how often one invocation called each sub-step: the metadata fetch, the
\* download, the final status write, the splitter, the embedder, and
\* collection.insert / client.upsert
NoTries == [get |-> 0, download |-> 0, final |-> 0, chunk |-> 0, embed |-> 0, insert |-> 0]

Tried(r, what, k) == [r EXCEPT !.tries[what] = @ + k]

\* The state one invocation works on: the stored record, the in-memory
\* processing_stats["steps"], the collection, the scratch files on disk, the
\* log of what it wrote, and the chunks _process_content returns.
NewRun(doc, rws, c, nid) ==
  [doc |-> doc, mem |-> NoSteps, rows |-> rws, conn |-> c, nextId |-> nid, log |-> <<>>,
   files |-> {}, halt |-> FALSE, chunks |-> <<>>, inserted |-> <<>>, insertCalls |-> 0,
   ret |-> "none", raised |-> FALSE, attempts |-> 0, unlink |-> "none",
   before |-> doc.status, tries |-> NoTries]

\* DocumentProcessor._update_processing_status: the step's entry is replaced
\* in memory, then the whole map is written; a failed write is only logged.
update_processing_status(r, sc, step, status, err) ==
  LET mem2 == [r.mem EXCEPT ![step] =
                 [status |-> status, error |-> IF Truthy(err) THEN err ELSE NULL]]
      written == Exists(r.doc) /\ "step" \notin sc.F
  IN [r EXCEPT !.mem = mem2,
               !.doc = IF written THEN [r.doc EXCEPT !.steps = mem2] ELSE r.doc,
               !.log = Append(r.log, <<"step", step, status>>)]

\* DocumentProcessor._update_document_status: error is written only when it
\* is truthy; a failed write is only logged.
update_document_status(r, sc, status, err, withStats) ==
  LET written == Exists(r.doc) /\ "status" \notin sc.F
      d1 == [r.doc EXCEPT !.status = status,
                          !.error = IF Truthy(err) THEN err ELSE @,
                          !.steps = IF withStats THEN r.mem ELSE @]
  IN [r EXCEPT !.doc = IF written THEN d1 ELSE r.doc,
               !.log = IF written THEN Append(r.log, <<"status", status>>) ELSE r.log]

FailStep(r, sc, step, err) ==
  [update_processing_status(r, sc, step, "failed", err) EXCEPT !.halt = TRUE]

\* STEP 2.  The message the extraction fails with, or "ok".  hasStats is false
\* when no processing_stats was passed: the default dict has no "stepTimes"
\* key, and recording the extraction time raises KeyError inside the try.
ExtractionResult(doc, sc, hasStats) ==
  LET dispatch ==
        CASE doc.kind = "pdf" ->
               IF doc.text # "ok" \/ sc.fail = "extract"
               THEN "PDF extraction failed - empty result" ELSE "ok"
          [] doc.kind = "txt" ->
               IF sc.fail = "extract" THEN ExcMsg(sc)
               ELSE IF doc.text = "empty" THEN "Text file is empty" ELSE "ok"
          [] doc.kind = "docx" ->
               IF sc.fail = "extract" THEN ExcMsg(sc)
               ELSE IF doc.text = "empty" THEN "Text extraction failed - no content found"
               ELSE "ok"
          [] doc.kind = "text" ->
               IF doc.text = "empty" THEN "No file path or text content provided" ELSE "ok"
          [] OTHER -> "No file path or text content provided"
  IN IF dispatch = "ok" /\ ~hasStats THEN "'stepTimes'" ELSE dispatch

Extract(r, sc, hasStats) ==
  LET r1 == update_processing_status(r, sc, "text_extraction", "in_progress", NULL)
      res == ExtractionResult(r.doc, sc, hasStats)
  IN IF res # "ok" THEN FailStep(r1, sc, "text_extraction", res)
     ELSE update_processing_status(r1, sc, "text_extraction", "completed", NULL)

\* STEP 3.  Whitespace-only text yields no node.
Chunk(r, sc) ==
  IF r.halt THEN r
  ELSE LET r1 == Tried(update_processing_status(r, sc, "chunking", "in_progress", NULL), "chunk", 1)
           nodes == IF r.doc.text = "blank" THEN 0 ELSE r.doc.n
       IN IF sc.fail = "chunk" THEN FailStep(r1, sc, "chunking", ExcMsg(sc))
          ELSE IF nodes = 0 THEN FailStep(r1, sc, "chunking", "Chunking failed - no chunks created")
          ELSE update_processing_status(r1, sc, "chunking", "completed", NULL)

\* an embedding step that does not look at what became of the chunking
EmbedUnconditional(r, sc) ==
  LET r1 == Tried(update_processing_status(r, sc, "embedding", "in_progress", NULL), "embed", 1)
  IN IF sc.fail = "embed" THEN FailStep(r1, sc, "embedding", ExcMsg(sc))
     ELSE IF sc.fail = "embed_mismatch" THEN FailStep(r1, sc, "embedding", "Embedding mismatch")
     ELSE update_processing_status(r1, sc, "embedding", "completed", NULL)

\* STEP 4.
Embed(r, sc) ==
  IF r.halt THEN r
  ELSE LET r1 == Tried(update_processing_status(r, sc, "embedding", "in_progress", NULL), "embed", 1)
       IN IF sc.fail = "embed" THEN FailStep(r1, sc, "embedding", ExcMsg(sc))
          ELSE IF sc.fail = "embed_mismatch" THEN FailStep(r1, sc, "embedding", "Embedding mismatch")
          ELSE update_processing_status(r1, sc, "embedding", "completed", NULL)

\* chunks_for_insertion: one record per node, each with a fresh uuid4
ChunksForInsertion(doc, d, nid) ==
  [i \in 1..doc.n |->
     [id |-> nid + i - 1, doc |-> d, complete |-> TRUE, nan |-> FALSE,
      dim |-> IF i \in doc.bad THEN Dimension - 1 ELSE Dimension]]

\* STEP 5.  The value insert_embeddings returns is dropped; the step returns
\* chunks_for_insertion.
Store(r, sc, d, b) ==
  IF r.halt THEN r
  ELSE LET r1 == update_processing_status(r, sc, "storage", "in_progress", NULL)
           batch == ChunksForInsertion(r.doc, d, r.nextId)
           res == insert_embeddings(b, r1.conn, r1.rows, batch, 1, InsOk(sc), sc.qbad)
           r2 == [Tried(r1, "insert", res.attempts)
                    EXCEPT !.rows = res.rows, !.conn = res.conn,
                           !.nextId = @ + Len(batch), !.insertCalls = @ + 1]
       IN IF res.raised THEN FailStep(r2, sc, "storage", ExcMsg(sc))
          ELSE [update_processing_status(r2, sc, "storage", "completed", NULL)
                  EXCEPT !.chunks = IdsOf(batch), !.inserted = res.ids]

\* DocumentProcessor._process_content: every failure is caught inside and
\* turned into the return value [].
process_content(r, sc, d, b, hasStats) ==
  [Store(Embed(Chunk(Extract(r, sc, hasStats), sc), sc), sc, d, b) EXCEPT !.halt = FALSE]

\* the "except Exception as e" of process_document (lines 180-183)
OuterExcept(r, sc, msg) ==
  [update_document_status(r, sc, "failed", msg, TRUE) EXCEPT !.ret = "error"]

\* a final write that takes effect before its failure is noticed: the record
\* is completed and then, in the handler, failed
FinishLate(r, sc) ==
  IF r.chunks = <<>>
  THEN [update_document_status(r, sc, "failed", "No chunks created", TRUE) EXCEPT !.ret = "error"]
  ELSE LET done == [Tried(r, "final", 1)
                      EXCEPT !.doc = [@ EXCEPT !.status = "completed",
                                               !.chunkCount = Len(r.chunks),
                                               !.vectorIds = r.chunks, !.steps = r.mem,
                                               !.error = NULL],
                             !.log = Append(@, <<"status", "completed">>),
                             !.ret = "ok"]
       IN IF "final" \in sc.F THEN OuterExcept(done, sc, ExcMsg(sc)) ELSE done

\* lines 143-178: no chunks is a failure; otherwise the record is completed
\* with the chunks _process_content returned.
Finish(r, sc) ==
  IF r.chunks = <<>>
  THEN [update_document_status(r, sc, "failed", "No chunks created", TRUE) EXCEPT !.ret = "error"]
  ELSE IF "final" \in sc.F THEN OuterExcept(Tried(r, "final", 1), sc, ExcMsg(sc))
  ELSE [Tried(r, "final", 1)
          EXCEPT !.doc = [@ EXCEPT !.status = "completed", !.chunkCount = Len(r.chunks),
                                   !.vectorIds = r.chunks, !.steps = r.mem, !.error = NULL],
                 !.log = Append(@, <<"status", "completed">>),
                 !.ret = "ok"]

\* a cleanup placed after the try instead of in its finally: it is skipped
\* when steps 2-5 produced nothing
CleanupOnSuccess(r, sc) ==
  IF r.chunks = <<>> THEN r
  ELSE IF sc.unl
       THEN update_processing_status([r EXCEPT !.files = @ \ {"scratch"}, !.unlink = "removed"],
                                     sc, "cleanup", "completed", NULL)
       ELSE update_processing_status([r EXCEPT !.unlink = "failed"], sc,
                                     "cleanup", "failed", ExcMsg(sc))

\* STEP 6 (the finally block, lines 114-126)
Cleanup(r, sc) ==
  LET r1 == update_processing_status(r, sc, "cleanup", "in_progress", NULL)
  IN IF sc.unl
     THEN update_processing_status([r1 EXCEPT !.files = @ \ {"scratch"}, !.unlink = "removed"],
                                   sc, "cleanup", "completed", NULL)
     ELSE update_processing_status([r1 EXCEPT !.unlink = "failed"], sc,
                                   "cleanup", "failed", ExcMsg(sc))

\* lines 97-131: the file-backed branch
ProcessFile(r, sc, d, b) ==
  LET r1 == Tried(update_processing_status(r, sc, "download", "in_progress", NULL), "download", 1)
  IN IF sc.fail \in {"download", "download_partial"}
     THEN LET r2 == [r1 EXCEPT !.files = IF sc.fail = "download_partial"
                                         THEN @ \cup {"partial"} ELSE @]
              r3 == update_processing_status(r2, sc, "download", "failed", ExcMsg(sc))
          IN [update_document_status(r3, sc, "failed", "Failed to download file", TRUE)
                EXCEPT !.ret = "error"]
     ELSE LET r2 == update_processing_status([r1 EXCEPT !.files = @ \cup {"scratch"}], sc,
                                             "download", "completed", NULL)
          IN Finish(Cleanup(process_content(r2, sc, d, b, TRUE), sc), sc)

\* lines 134-141: inline content
ProcessText(r, sc, d, b) ==
  IF r.doc.kind # "text" \/ r.doc.text = "empty"
  THEN [update_document_status(r, sc, "failed", "Document has no content or file", TRUE)
          EXCEPT !.ret = "error"]
  ELSE Finish(process_content(r, sc, d, b, TRUE), sc)

\* DocumentProcessor.process_document.  Firestore's update raises when the
\* record does not exist.
process_document(r, sc, d, b) ==
  IF ~Exists(r.doc) \/ "init" \in sc.F
  THEN OuterExcept(r, sc, IF Exists(r.doc) THEN ExcMsg(sc) ELSE "not found")
  ELSE LET r1 == [r EXCEPT !.doc = [@ EXCEPT !.status = "processing", !.steps = NoSteps],
                           !.log = Append(@, <<"status", "processing">>)]
           r2 == Tried(r1, "get", 1)
       IN IF "get" \in sc.F THEN OuterExcept(r2, sc, ExcMsg(sc))
          ELSE IF r2.doc.kind \in FileKinds THEN ProcessFile(r2, sc, d, b)
          ELSE ProcessText(r2, sc, d, b)

\* tasks/document_tasks.py process_document: a processor (and with it a
\* vector-store client) is constructed before the try; inside it the record
\* is fetched, set to processing and handed to the processor.  The handler
\* writes failed with error = str(e) and re-raises.
TaskExcept(r, sc, msg) ==
  LET written == Exists(r.doc) /\ "tfail" \notin sc.F
  IN [r EXCEPT !.doc = IF written THEN [@ EXCEPT !.status = "failed", !.error = msg] ELSE @,
               !.log = IF written THEN Append(@, <<"status", "failed">>) ELSE @,
               !.raised = TRUE]

task_process_document(doc, rws, nid, sc, d, b) ==
  LET ctor == get_vector_db(b, rws, IF sc.fail = "ctor" THEN 0 ELSE 1)
      rc == NewRun(doc, ctor.rows, ctor.conn, nid)
      r0 == Tried(rc, "get", 1)
  IN IF ctor.raised THEN [rc EXCEPT !.raised = TRUE]
     ELSE IF "tget" \in sc.F THEN TaskExcept(r0, sc, ExcMsg(sc))
     ELSE IF ~Exists(doc) THEN TaskExcept(r0, sc, "not found")
     ELSE IF "tinit" \in sc.F THEN TaskExcept(r0, sc, ExcMsg(sc))
     ELSE process_document(
            [r0 EXCEPT !.doc = [@ EXCEPT !.status = "processing"],
                       !.log = Append(@, <<"status", "processing">>)], sc, d, b)

DeletedDoc == [AbsentDoc EXCEPT !.status = "deleted"]

\* the failure branch of process_document_immediately (lines 563-581)
ImmediateFail(r, sc) ==
  LET written == Exists(r.doc) /\ "ifail" \notin sc.F
  IN [r EXCEPT !.doc = IF written
                       THEN [@ EXCEPT !.status = "failed", !.steps = NoSteps,
                                      !.error = "Error processing document"]
                       ELSE @,
               !.log = IF written THEN Append(@, <<"status", "failed">>) ELSE @,
               !.raised = TRUE]

\* DocumentProcessor.process_document_immediately: up to max_retries attempts
\* of fetch, download, _process_content (called without processing_stats),
\* unlink and the completed write (itself tried three times); any exception
\* starts the next attempt, the last one writes failed and re-raises.  The
\* completed write sets chunkCount = len(chunks) whatever chunks is, and
\* replaces processingStats; vectorIds and error are not written.
RECURSIVE ImmediateAttempt(_, _, _, _, _)
ImmediateAttempt(r, sc, d, b, attempt) ==
  LET ra == [Tried(r, "get", 1) EXCEPT !.attempts = attempt + 1,
                                        !.log = Append(@, <<"attempt", attempt + 1>>)]
      rd == Tried(ra, "download", 1)
      Handler(rr) == IF attempt < max_retries - 1
                     THEN ImmediateAttempt(rr, sc, d, b, attempt + 1)
                     ELSE ImmediateFail(rr, sc)
  IN IF "iget" \in sc.F \/ ~Exists(ra.doc) \/ ra.doc.kind \notin FileKinds
     THEN Handler(ra)
     ELSE IF sc.fail \in {"download", "download_partial"}
     THEN Handler([rd EXCEPT !.files = IF sc.fail = "download_partial"
                                        THEN @ \cup {"partial"} ELSE @])
     ELSE LET r1 == process_content([rd EXCEPT !.files = @ \cup {"scratch"},
                                               !.mem = NoSteps, !.chunks = <<>>],
                                    sc, d, b, FALSE)
              r2 == [r1 EXCEPT !.files = IF sc.unl THEN @ \ {"scratch"} ELSE @,
                               !.unlink = IF sc.unl THEN "removed" ELSE "failed"]
          IN IF "ifinal" \in sc.F THEN Handler(Tried(r2, "final", 3))
             ELSE [Tried(r2, "final", 1) EXCEPT !.doc = [@ EXCEPT !.status = "completed",
                                              !.chunkCount = Len(r2.chunks),
                                              !.steps = NoSteps],
                             !.log = Append(@, <<"status", "completed">>),
                             !.ret = "ok"]

process_document_immediately(r, sc, d, b) == ImmediateAttempt(r, sc, d, b, 0)

\* DocumentProcessor.delete_document: vectors, then the backing file, then
\* the record.  The result of delete_by_document_id is not looked at; an
\* exception of storage.delete_file or of the record delete propagates.
processor_delete_document(r, sc, d, b) ==
  IF "dget" \in sc.F THEN [r EXCEPT !.raised = TRUE]
  ELSE IF ~Exists(r.doc) THEN [r EXCEPT !.ret = "false"]
  ELSE LET del == delete_by_document_id(b, r.conn, r.rows, d, 1, sc.delOk)
           r1 == [r EXCEPT !.rows = del.rows, !.conn = del.conn,
                           !.log = Append(@, <<"vectors", del.ret>>)]
       IN IF del.raised THEN [r1 EXCEPT !.raised = TRUE]
          ELSE IF r.doc.kind \in FileKinds /\ ~sc.fileOk
          THEN [r1 EXCEPT !.raised = TRUE, !.log = Append(@, <<"file", FALSE>>)]
          ELSE LET r2 == IF r.doc.kind \in FileKinds
                         THEN [r1 EXCEPT !.log = Append(@, <<"file", TRUE>>)] ELSE r1
               IN IF "pdel" \in sc.F
                  THEN [r2 EXCEPT !.raised = TRUE, !.log = Append(@, <<"record", FALSE>>)]
                  ELSE [r2 EXCEPT !.doc = DeletedDoc, !.ret = "true",
                                  !.log = Append(@, <<"record", TRUE>>)]

\* DocumentProcessor.reindex_document
processor_reindex_document(r, sc, d, b) ==
  LET del == delete_by_document_id(b, r.conn, r.rows, d, 1, sc.delOk)
      r1 == [r EXCEPT !.rows = del.rows, !.conn = del.conn,
                      !.log = Append(@, <<"vectors", del.ret>>)]
  IN IF del.raised THEN [r1 EXCEPT !.raised = TRUE]
     ELSE process_document(r1, sc, d, b)

\* api/documents.py delete_document (lines 174-214), for an existing record
\* of the caller: the processor's delete runs only when vectorIds is truthy;
\* the file delete is tried (again: a blob the processor already deleted is
\* not found) and its failure ignored; then the record is deleted.  Any
\* other exception becomes HTTP 500.
api_delete_document(r, sc, d, b) ==
  LET r1 == IF r.doc.vectorIds \notin {NoneIds, <<>>}
            THEN processor_delete_document(r, sc, d, b) ELSE r
      gone == \E i \in 1..Len(r1.log) : r1.log[i] = <<"file", TRUE>>
      r2 == IF r.doc.kind \in FileKinds
            THEN [r1 EXCEPT !.log = Append(@, <<"file", sc.fileOk /\ ~gone>>)] ELSE r1
  IN IF r1.raised THEN r1
     ELSE IF "ddel" \in sc.F
     THEN [r2 EXCEPT !.raised = TRUE, !.log = Append(@, <<"record", FALSE>>)]
     ELSE [r2 EXCEPT !.doc = DeletedDoc, !.ret = "deleted",
                     !.log = Append(@, <<"record", TRUE>>)]

\* api/documents.py reindex_document (lines 245-258), for an existing record
\* of the caller: reset the record, then process_document_immediately.
api_reindex_document(r, sc, d, b) ==
  IF "rinit" \in sc.F THEN [r EXCEPT !.raised = TRUE]
  ELSE process_document_immediately(
         [r EXCEPT !.doc = [@ EXCEPT !.status = "processing", !.chunkCount = NoneInt,
                                     !.vectorIds = NoneIds],
                   !.log = Append(@, <<"status", "processing">>)], sc, d, b)

(* ------------------------------ scenarios ------------------------------- *)
NoFault == [fail |-> "none", unl |-> TRUE, empty |-> FALSE, F |-> {}, qbad |-> "accept",
            delOk |-> TRUE, fileOk |-> TRUE]

\* the sets of at most k elements of S
RECURSIVE UpTo(_, _)
UpTo(S, k) ==
  IF k = 0 THEN {{}}
  ELSE LET P == UpTo(S, k - 1) IN P \cup {p \cup {x} : p \in P, x \in S}

Toggles == {"unl", "delOk", "fileOk"}

\* the failures whose exception text the handlers read (str(e))
MessageSources == {"download", "download_partial", "extract", "chunk", "embed", "insert",
                   "unl", "init", "get", "final", "tget", "tinit"}

\* what Qdrant may do with the batch of a document: only a batch with a
\* malformed record can be rejected for it
Qbads(b, bad) == IF b = "qdrant" /\ bad # {} THEN {"accept", "reject"} ELSE {"accept"}

\* One invocation's scenario: at most MaxFaults things go wrong, each a fail
\* point, a failing store call site, or a failing unlink / vector delete /
\* file delete; where an exception text is read it is empty or not.
Scenarios(fails, sites, toggles, qbads) ==
  UNION {{[fail |-> IF D \cap fails = {} THEN "none" ELSE CHOOSE f \in D \cap fails : TRUE,
           F |-> D \cap sites,
           unl |-> "unl" \notin D, delOk |-> "delOk" \notin D, fileOk |-> "fileOk" \notin D,
           empty |-> e, qbad |-> q] :
            e \in IF D \cap MessageSources = {} /\ q = "accept" THEN {FALSE} ELSE BOOLEAN} :
     D \in {X \in UpTo(fails \cup sites \cup toggles, MaxFaults) : Cardinality(X \cap fails) <= 1},
     q \in qbads}

QbadSets == {{"accept"}, {"accept", "reject"}}

UploadScenarios ==
  [qbads \in QbadSets |->
     Scenarios(FailPoints \ {"none"},
               {"tget", "tinit", "tfail", "init", "get", "step", "status", "final"}, {"unl"},
               qbads)]

ReindexScenarios ==
  [qbads \in QbadSets |->
     Scenarios({"download", "download_partial", "extract"},
               {"rinit", "iget", "step", "ifinal", "ifail"}, {"unl"}, qbads)]

ProcReindexScenarios ==
  [qbads \in QbadSets |->
     Scenarios(FailPoints \ {"none", "ctor"}, {"init", "get", "step", "status", "final"},
               {"unl", "delOk"}, qbads)]

DeleteScenarios == Scenarios({}, {"dget", "pdel", "ddel"}, {"delOk", "fileOk"}, {"accept"})

(* ------------------------- invocations in flight ------------------------ *)
\* The coroutines of one event loop.  A coroutine gives way to another only
\* where it awaits something that suspends: asyncio.to_thread of the reader
\* (extraction), of the splitter (chunking) and of the embedder (embedding).
\* The awaited store and vector-store methods run without suspending.
Tasks == {1, 2}

\* what a task keeps between two segments: where it stands, its
\* processing_stats["steps"] and its scratch files
IdleTask == [pc |-> "idle", kind |-> "none", mem |-> NoSteps, files |-> {}]

NoTasks == [t \in Tasks |-> IdleTask]

\* DocumentProcessor.reindex_document up to the first suspension: the
\* document's rows are deleted, then process_document writes processing,
\* fetches the record, downloads the file and hands the extraction to a thread
ReindexBegin(r, d, b) ==
  LET del == delete_by_document_id(b, r.conn, r.rows, d, 1, TRUE)
      r1 == [r EXCEPT !.rows = del.rows, !.conn = del.conn,
                      !.log = Append(@, <<"vectors", del.ret>>),
                      !.doc = [@ EXCEPT !.status = "processing", !.steps = NoSteps]]
      r2 == [r1 EXCEPT !.log = Append(@, <<"status", "processing">>)]
      r3 == Tried(update_processing_status(Tried(r2, "get", 1), NoFault, "download",
                                           "in_progress", NULL), "download", 1)
      r4 == update_processing_status([r3 EXCEPT !.files = @ \cup {"scratch"}], NoFault,
                                     "download", "completed", NULL)
  IN update_processing_status(r4, NoFault, "text_extraction", "in_progress", NULL)

\* POST /{id}/reindex up to the first suspension: the record is reset, then
\* process_document_immediately fetches it, downloads the file and
\* _process_content hands the extraction to a thread
ApiReindexBegin(r) ==
  LET r1 == [r EXCEPT !.doc = [@ EXCEPT !.status = "processing", !.chunkCount = NoneInt,
                                        !.vectorIds = NoneIds],
                      !.log = Append(@, <<"status", "processing">>)]
      r2 == Tried(Tried(r1, "get", 1), "download", 1)
  IN update_processing_status([r2 EXCEPT !.files = @ \cup {"scratch"}], NoFault,
                              "text_extraction", "in_progress", NULL)

\* the reader has returned: step 2 is completed and the splitter is started
ExtractionDone(r) ==
  update_processing_status(
    update_processing_status(r, NoFault, "text_extraction", "completed", NULL),
    NoFault, "chunking", "in_progress", NULL)

\* the reader has returned in process_document_immediately: recording the
\* step time raises KeyError, _process_content returns [], the file is
\* unlinked and the record is written completed with chunkCount 0
ApiReindexEnd(r) ==
  LET r1 == FailStep(r, NoFault, "text_extraction", "'stepTimes'")
  IN [Tried(r1, "final", 1)
        EXCEPT !.halt = FALSE, !.files = @ \ {"scratch"}, !.unlink = "removed",
               !.doc = [@ EXCEPT !.status = "completed", !.chunkCount = 0,
                                 !.steps = NoSteps],
               !.log = Append(@, <<"status", "completed">>),
               !.ret = "ok"]

\* the splitter has returned: step 3 is completed and the embedder is started
ChunkingDone(r) ==
  update_processing_status(
    Tried(update_processing_status(r, NoFault, "chunking", "completed", NULL), "chunk", 1),
    NoFault, "embedding", "in_progress", NULL)

\* the embedder has returned: step 4 is completed, then storage, cleanup and
\* the final write run without giving way
EmbeddingDone(r, d, b) ==
  LET r1 == Tried(update_processing_status(r, NoFault, "embedding", "completed", NULL),
                  "embed", 1)
  IN Finish(Cleanup(Store(r1, NoFault, d, b), NoFault), NoFault)

\* the segment a task runs next, on the record and the collection as they are
Segment(t, d, kind, rws, c, ds, nid, b) ==
  LET r == [NewRun(ds[d], rws, c, nid) EXCEPT !.mem = tasks[t].mem, !.files = tasks[t].files]
      pc == tasks[t].pc
  IN CASE pc = "idle" /\ kind = "reindex" -> [pc |-> "extract", run |-> ReindexBegin(r, d, b)]
       [] pc = "idle" /\ kind = "api_reindex" -> [pc |-> "extract", run |-> ApiReindexBegin(r)]
       [] pc = "extract" /\ kind = "reindex" -> [pc |-> "chunk", run |-> ExtractionDone(r)]
       [] pc = "extract" /\ kind = "api_reindex" -> [pc |-> "done", run |-> ApiReindexEnd(r)]
       [] pc = "chunk" -> [pc |-> "embed", run |-> ChunkingDone(r)]
       [] OTHER -> [pc |-> "done", run |-> EmbeddingDone(r, d, b)]

(* -------------------------------- actions ------------------------------- *)
Ids(rws, ds) ==
  {r.id : r \in rws} \cup
  UNION {{ds[d].vectorIds[i] : i \in 1..Len(ds[d].vectorIds)} : d \in DocIds}

\* a uuid4 never drawn before: above every id a row or a record holds
NextFree == 1 + CHOOSE m \in 0..MaxIds + MaxChunks :
                  /\ \A i \in Ids(rows, docs) : i <= m
                  /\ \A k \in 0..m - 1 : \E i \in Ids(rows, docs) : i > k

\* the pipeline step (1-5) this invocation recorded as failed, if any
FailedStep(r) ==
  LET failed == {i \in 1..5 : r.mem[ProcessingStep[i]].status = "failed"}
  IN IF failed = {} THEN "none" ELSE ProcessingStep[CHOOSE i \in failed : TRUE]

\* the processingStatus values one invocation wrote, in order
StatusWrites(r) ==
  LET w == SelectSeq(r.log, LAMBDA e : e[1] = "status")
  IN [i \in 1..Len(w) |-> w[i][2]]

\* the step marks one invocation made, in order: <<step, status>>
StepMarks(r) ==
  LET w == SelectSeq(r.log, LAMBDA e : e[1] = "step")
  IN [i \in 1..Len(w) |-> <<w[i][2], w[i][3]>>]

\* the deletions one invocation attempted, in order, each with its success
Deletions(r) == SelectSeq(r.log, LAMBDA e : e[1] \in {"vectors", "file", "record"})

\* what the caller and the local disk see when the handler returns, and
\* what the handler did on the way
Outcome(op, d, r) ==
  [op |-> op, doc |-> d, ret |-> r.ret, raised |-> r.raised, files |-> r.files,
   failedStep |-> FailedStep(r), unlink |-> r.unlink,
   before |-> r.before, writes |-> StatusWrites(r), deletes |-> Deletions(r),
   tries |-> r.tries, chunks |-> r.chunks, marks |-> StepMarks(r), inserted |-> r.inserted]

Commit(op, d, run) ==
  LET r == run
  IN
  /\ docs' = [docs EXCEPT ![d] = r.doc]
  /\ rows' = r.rows
  /\ last' = Outcome(op, d, r)
  /\ ops' = ops + 1
  /\ UNCHANGED <<backend, conn, last_sources, settings_llm, tasks>>

NewDoc(shape, uploaded) ==
  [status |-> "pending",
   chunkCount |-> IF uploaded THEN 0 ELSE NoneInt,
   vectorIds |-> IF uploaded THEN <<>> ELSE NoneIds,
   error |-> NULL, steps |-> NoSteps,
   kind |-> shape.kind, text |-> shape.text, n |-> shape.n, bad |-> shape.bad]

\* POST /upload: the record is created pending, then the task runs inside
\* the request; an exception of the task is logged and dropped.
Upload(d) ==
  /\ ops < MaxOps
  /\ docs[d].status = "absent"
  /\ \E shape \in FileShapes :
       /\ NextFree + shape.n - 1 <= MaxIds
       /\ \E sc \in UploadScenarios[Qbads(backend, shape.bad)] :
            Commit("upload", d,
                   task_process_document(NewDoc(shape, TRUE), rows, NextFree, sc, d, backend))

\* POST /url: the same for scraped content, whose record has no chunkCount,
\* vectorIds or error field
CreateFromUrl(d) ==
  /\ ops < MaxOps
  /\ docs[d].status = "absent"
  /\ \E shape \in TextShapes :
       /\ NextFree + shape.n - 1 <= MaxIds
       /\ \E sc \in UploadScenarios[Qbads(backend, shape.bad)] :
            Commit("url", d,
                   task_process_document(NewDoc(shape, FALSE), rows, NextFree, sc, d, backend))

\* POST /{id}/reindex
ApiReindex(d) ==
  /\ ops < MaxOps
  /\ Exists(docs[d])
  /\ NextFree + docs[d].n - 1 <= MaxIds
  /\ LET r0 == NewRun(docs[d], rows, conn, NextFree)
     IN \E sc \in ReindexScenarios[Qbads(backend, docs[d].bad)] :
          Commit("api_reindex", d, api_reindex_document(r0, sc, d, backend))

\* DELETE /{id}
ApiDelete(d) ==
  /\ ops < MaxOps
  /\ Exists(docs[d])
  /\ LET r0 == NewRun(docs[d], rows, conn, NextFree)
     IN \E sc \in DeleteScenarios :
          Commit("api_delete", d, api_delete_document(r0, sc, d, backend))

\* DocumentProcessor.reindex_document, the service's reindex(document_id)
ProcReindex(d) ==
  /\ ops < MaxOps
  /\ Exists(docs[d])
  /\ NextFree + docs[d].n - 1 <= MaxIds
  /\ LET r0 == NewRun(docs[d], rows, conn, NextFree)
     IN \E sc \in ProcReindexScenarios[Qbads(backend, docs[d].bad)] :
          Commit("reindex", d, processor_reindex_document(r0, sc, d, backend))

Init ==
  /\ backend \in Backends
  /\ docs = [d \in DocIds |-> AbsentDoc]
  /\ rows = {}
  /\ conn = TRUE
  /\ last = [op |-> "init"]
  /\ last_sources = <<>>
  /\ ops = 0
  /\ settings_llm = DefaultLlm
  /\ tasks = NoTasks

Next ==
  \E d \in DocIds :
    \/ Upload(d)
    \/ CreateFromUrl(d)
    \/ ApiReindex(d)
    \/ ApiDelete(d)
    \/ ProcReindex(d)

Spec == Init /\ [][Next]_vars

(* ----------------------- a store shared with another document ----------- *)
\* the rows of a document processed earlier, which the requests do not name
OtherRows == {[id |-> 1, doc |-> "B"]}

InitShared ==
  /\ backend \in Backends
  /\ docs = [d \in DocIds |-> AbsentDoc]
  /\ rows = OtherRows
  /\ conn = TRUE
  /\ last = [op |-> "init"]
  /\ last_sources = <<>>
  /\ ops = 0
  /\ settings_llm = DefaultLlm
  /\ tasks = NoTasks

SpecShared == InitShared /\ [][Next]_vars

(* ------------------- two invocations on one document -------------------- *)
\* the document both invocations work on: uploaded and processed before
ProcessedDoc ==
  [b \in Backends |->
     task_process_document(NewDoc(Shape("docx", "ok", 1, {}), TRUE), {}, 1, NoFault, "A", b)]

InitConc ==
  /\ backend \in Backends
  /\ docs = [d \in DocIds |-> ProcessedDoc[backend].doc]
  /\ rows = ProcessedDoc[backend].rows
  /\ conn = TRUE
  /\ last = [op |-> "init"]
  /\ last_sources = <<>>
  /\ ops = 0
  /\ settings_llm = DefaultLlm
  /\ tasks = NoTasks

\* a task runs from where it stands to its next suspension, or to its end
Run(t, d, kind) ==
  /\ NextFree + docs[d].n - 1 <= MaxIds
  /\ LET seg == Segment(t, d, kind, rows, conn, docs, NextFree, backend)
     IN /\ docs' = [docs EXCEPT ![d] = seg.run.doc]
        /\ rows' = seg.run.rows
        /\ conn' = seg.run.conn
        /\ tasks' = [tasks EXCEPT ![t] = [pc |-> seg.pc, kind |-> kind, mem |-> seg.run.mem,
                                          files |-> seg.run.files]]
        /\ last' = [op |-> "segment", task |-> t, kind |-> kind, doc |-> d, pc |-> seg.pc,
                    inserted |-> seg.run.inserted]
  /\ UNCHANGED <<backend, last_sources, ops, settings_llm>>

\* a request arrives: DocumentProcessor.reindex_document, or POST /{id}/reindex
TaskStart(t, d) ==
  /\ tasks[t].pc = "idle"
  /\ \E kind \in {"reindex", "api_reindex"} : Run(t, d, kind)

\* the thread a task waits for has finished
TaskResume(t, d) ==
  /\ tasks[t].pc \in {"extract", "chunk", "embed"}
  /\ Run(t, d, tasks[t].kind)

NextConc ==
  \E t \in Tasks, d \in DocIds :
    \/ TaskStart(t, d)
    \/ TaskResume(t, d)

SpecConc == InitConc /\ [][NextConc]_vars

(* --------------------- the vector store, call by call -------------------- *)
MaxBatch == 2            \* records in one batch handed to insert_embeddings

DefaultCutoff == 60      \* similarity scores and cutoffs are in hundredths
RelaxFloor == 40
RelaxStep == 20
Scores == {30, 50, 70}
Cutoffs == {RelaxFloor, 50, DefaultCutoff}
Limits == {1, 3}

RecordKinds == {"valid", "short", "nan", "partial"}
Record(id, d, k) ==
  [id |-> id, doc |-> d, complete |-> k # "partial", nan |-> k = "nan",
   dim |-> IF k = "short" THEN Dimension - 1 ELSE Dimension]

Batches(nid) ==
  {<<>>} \cup
  UNION {{[i \in 1..n |-> Record(nid + i - 1, d, ks[i])] : ks \in [1..n -> RecordKinds], d \in DocIds}
           : n \in 1..MaxBatch}

\* the similarity of every stored row to one query vector; row ids carry no
\* meaning, so the rows are taken in the order of their similarity
Scorings(rws) ==
  {score \in [rws -> Scores] :
     \A r1, r2 \in rws : r1.id < r2.id => score[r1] >= score[r2]}

\* what the server answers to a search: the limit best-scoring rows
TopK(rws, score, limit) ==
  LET k == IF Cardinality(rws) < limit THEN Cardinality(rws) ELSE limit
  IN {[id |-> r.id, doc |-> r.doc, score |-> score[r]] : r \in
        CHOOSE H \in SUBSET rws :
          /\ Cardinality(H) = k
          /\ \A h \in H, o \in rws \ H : score[h] >= score[o]}

\* the except clause of MilvusDB.search_similar: the connection is marked
\* lost, one reconnect is tried (reOk), and the exception goes to the caller
Milvus_search_failed(cutoff, reOk) ==
  [result |-> {}, applied |-> cutoff, conn |-> reOk, raised |-> TRUE,
   connects |-> Connects(connect_with_retry(1, IF reOk THEN 1 ELSE 0)), calls |-> 0]

\* MilvusDB.search_similar.  searchOk: collection.search does not raise.
RECURSIVE Milvus_search_similar(_, _, _, _, _, _)
Milvus_search_similar(c, hits, cutoff, firstOk, searchOk, reOk) ==
  LET cw == IF c THEN [ok |-> TRUE] ELSE connect_with_retry(max_retries, firstOk)
      first == IF c THEN <<>> ELSE Connects(cw)
  IN IF ~cw.ok \/ ~searchOk
     THEN [Milvus_search_failed(cutoff, reOk)
             EXCEPT !.connects = first \o @, !.calls = IF cw.ok THEN 1 ELSE 0]
     ELSE LET formatted_results == {h \in hits : ~(h.score < cutoff)}
          IN IF formatted_results = {} /\ cutoff > RelaxFloor
             THEN [Milvus_search_similar(TRUE, hits, cutoff - RelaxStep, firstOk, searchOk, reOk)
                     EXCEPT !.connects = first \o @, !.calls = @ + 1]
             ELSE [result |-> formatted_results, applied |-> cutoff, conn |-> TRUE,
                   raised |-> FALSE, connects |-> first, calls |-> 1]

\* QdrantDB.search_similar: one search, one filter, nothing caught
Qdrant_search_similar(c, hits, cutoff, searchOk) ==
  IF ~searchOk
  THEN [result |-> {}, applied |-> cutoff, conn |-> c, raised |-> TRUE, connects |-> <<>>,
        calls |-> 1]
  ELSE [result |-> {h \in hits : ~(h.score < cutoff)}, applied |-> cutoff, conn |-> c,
        raised |-> FALSE, connects |-> <<>>, calls |-> 1]

search_similar(b, c, hits, cutoff, firstOk, searchOk, reOk) ==
  IF b = "zilliz" THEN Milvus_search_similar(c, hits, cutoff, firstOk, searchOk, reOk)
  ELSE Qdrant_search_similar(c, hits, cutoff, searchOk)

ConnectOutcomes == {0, 1, max_retries}

VdbInsert ==
  \E batch \in Batches(NextFree), firstOk \in ConnectOutcomes, insOk \in ConnectOutcomes,
     q \in Qbads(backend, {1}) :
    /\ NextFree + Len(batch) - 1 <= MaxIds
    /\ LET res == insert_embeddings(backend, conn, rows, batch, firstOk, insOk, q)
       IN /\ rows' = res.rows
          /\ conn' = res.conn
          /\ last' = [op |-> "insert", batch |-> batch, ids |-> res.ids, raised |-> res.raised,
                      fault |-> insOk = 0 \/ (backend = "zilliz" /\ ~conn /\ firstOk = 0),
                      attempts |-> res.attempts]
    /\ UNCHANGED <<backend, docs, last_sources, ops, settings_llm, tasks>>

VdbSearch ==
  \E score \in Scorings(rows), cutoff \in Cutoffs, limit \in Limits,
     firstOk \in {0, 1}, searchOk \in BOOLEAN, reOk \in BOOLEAN :
    /\ (firstOk = 0 /\ searchOk) => ~conn
    /\ (reOk /\ searchOk) => (~conn /\ firstOk = 0)
    /\ LET hits == TopK(rows, score, limit)
           res == search_similar(backend, conn, hits, cutoff, firstOk, searchOk, reOk)
       IN /\ conn' = res.conn
          /\ last' = [op |-> "search", cutoff |-> cutoff, hits |-> hits, result |-> res.result,
                      applied |-> res.applied, raised |-> res.raised]
    /\ UNCHANGED <<backend, docs, rows, last_sources, ops, settings_llm, tasks>>

VdbDelete ==
  \E d \in DocIds, firstOk \in ConnectOutcomes, delOk \in BOOLEAN :
    /\ LET res == delete_by_document_id(backend, conn, rows, d, firstOk, delOk)
       IN /\ rows' = res.rows
          /\ conn' = res.conn
          /\ last' = [op |-> "delete", doc |-> d, ret |-> res.ret, raised |-> res.raised]
    /\ UNCHANGED <<backend, docs, last_sources, ops, settings_llm, tasks>>

\* get_vector_db(): a client object is constructed
VdbConstruct ==
  \E firstOk \in ConnectOutcomes :
    /\ LET res == get_vector_db(backend, rows, firstOk)
       IN /\ rows' = res.rows
          /\ conn' = res.conn
          /\ last' = [op |-> "construct", raised |-> res.raised]
    /\ UNCHANGED <<backend, docs, last_sources, ops, settings_llm, tasks>>

\* the network or the server drops the Milvus connection
ConnectionLost ==
  /\ backend = "zilliz"
  /\ conn
  /\ conn' = FALSE
  /\ last' = [op |-> "lost"]
  /\ UNCHANGED <<backend, docs, rows, last_sources, ops, settings_llm, tasks>>

NextVdb ==
  \/ VdbInsert
  \/ VdbSearch
  \/ VdbDelete
  \/ VdbConstruct
  \/ ConnectionLost

SpecVdb == Init /\ [][NextVdb]_vars

(* ------------------------- the client's connection ---------------------- *)
\* the batches of one record, and the empty one
SmallBatches(nid) == {<<>>} \cup {<<Record(nid, d, k)>> : d \in DocIds, k \in {"valid", "short"}}

\* the attempt at which a connect succeeds, where one is made at all
Reconnects(c) == IF c THEN {1} ELSE ConnectOutcomes

\* insert_embeddings, with what it did about the connection
ConnInsert ==
  \E batch \in SmallBatches(NextFree), firstOk \in Reconnects(conn), insOk \in ConnectOutcomes :
    /\ NextFree + Len(batch) - 1 <= MaxIds
    /\ LET res == insert_embeddings(backend, conn, rows, batch, firstOk, insOk, "accept")
       IN /\ rows' = res.rows
          /\ conn' = res.conn
          /\ last' = [op |-> "insert", batch |-> batch, ids |-> res.ids, raised |-> res.raised,
                      attempts |-> res.attempts, was |-> conn, connects |-> res.connects]
    /\ UNCHANGED <<backend, docs, last_sources, ops, settings_llm, tasks>>

\* search_similar, with what it did about the connection
ConnSearch ==
  \E score \in Scorings(rows), cutoff \in Cutoffs, firstOk \in Reconnects(conn),
     searchOk \in BOOLEAN, reOk \in BOOLEAN :
    /\ (reOk /\ searchOk) => (~conn /\ firstOk = 0)
    /\ LET hits == TopK(rows, score, 3)
           res == search_similar(backend, conn, hits, cutoff, firstOk, searchOk, reOk)
       IN /\ conn' = res.conn
          /\ last' = [op |-> "search", cutoff |-> cutoff, result |-> res.result,
                      raised |-> res.raised, was |-> conn, connects |-> res.connects,
                      calls |-> res.calls]
    /\ UNCHANGED <<backend, docs, rows, last_sources, ops, settings_llm, tasks>>

NextConn ==
  \/ ConnInsert
  \/ ConnSearch
  \/ VdbConstruct
  \/ ConnectionLost

SpecConn == Init /\ [][NextConn]_vars

(* ------------------------------ query engine ---------------------------- *)
MaxNodes == 2            \* source nodes one retrieval hands back

RAGStatus == {"rag_success", "llm_fallback", "error", "no_context_found", "no_documents"}

EmptyResponse == "I apologize, but I'm having trouble generating a response based on the available information."
LlmTrouble == "I'm having trouble generating a response right now."
LlmTroubleLater == "I'm having trouble generating a response right now. Please try again later."
UnexpectedError == "I apologize, but I encountered an unexpected error. Please try again later."

\* str.strip() of the texts that occur
Strip(text) == IF text = "   " THEN "" ELSE text
\* len(text.split())
SplitLen(text) ==
  IF Strip(text) = "" THEN 0 ELSE IF text = EmptyResponse THEN 14 ELSE 1

\* a query text: its number of words and whether one of them is an indicator
Queries ==
  [words : {8, 9, 16}, indicator : {FALSE}] \cup [words : {8}, indicator : {TRUE}]

\* a classification whose length threshold is one word too high
assess_query_complexity_late(q) ==
  IF q.words > 16 \/ q.indicator THEN "high"
  ELSE IF q.words > 8 THEN "medium"
  ELSE "low"

assess_query_complexity(q) ==
  IF q.words > 15 \/ q.indicator THEN "high"
  ELSE IF q.words > 8 THEN "medium"
  ELSE "low"

\* what llm.chat does: it raises, or it answers with a content that is a
\* non-empty text, "", blanks or None, or with an object of another shape
LlmOutcomes == {"answer", "empty", "blank", "none", "odd", "raises"}

\* QueryEngine._query_llm_only: always a dict with a "response"; len(None)
\* raises inside the try.
query_llm_only(llm) ==
  CASE llm = "answer" -> [raised |-> FALSE, response |-> "answer"]
    [] llm = "empty" -> [raised |-> FALSE, response |-> ""]
    [] llm = "blank" -> [raised |-> FALSE, response |-> "   "]
    [] llm = "odd" -> [raised |-> FALSE, response |-> LlmTrouble]
    [] OTHER -> [raised |-> FALSE, response |-> LlmTroubleLater]

Returned(text, prefixed, sources, tokens, status, searched, keep) ==
  [raised |-> FALSE, text |-> text, prefixed |-> prefixed, sources |-> sources,
   tokens |-> tokens, status |-> status, searched |-> searched, keep |-> keep]

\* lines 126-137: similarity_top_k and similarity_cutoff (in hundredths)
RetrievalParams(complexity) ==
  CASE complexity = "high" -> [top_k |-> 8, cutoff |-> 50]
    [] complexity = "medium" -> [top_k |-> 5, cutoff |-> 55]
    [] OTHER -> [top_k |-> 3, cutoff |-> DefaultCutoff]

QueryRaised(searched) ==
  [raised |-> TRUE, text |-> "", prefixed |-> FALSE, sources |-> <<>>, tokens |-> 0,
   status |-> "none", searched |-> searched, keep |-> TRUE]

\* the source nodes of a response: with metadata ("meta") or without ("bare")
NodeLists == UNION {[1..n -> {"meta", "bare"}] : n \in 0..MaxNodes}

SourcesOf(nodes) ==
  LET Meta(k) == k = "meta"
      kept == SelectSeq([i \in 1..Len(nodes) |-> [kind |-> nodes[i], chunk |-> i]],
                        LAMBDA x : Meta(x.kind))
  IN [i \in 1..Len(kept) |-> [document_id |-> "A", chunk_id |-> kept[i].chunk]]

\* lines 117-213: retrieval and synthesis through the index
Retrieve(q, vec, nodes, ragText) ==
  IF vec = "raises" THEN QueryRaised(TRUE)
  ELSE LET sources == SourcesOf(nodes)
           status0 == IF nodes = <<>> THEN "no_context_found" ELSE "rag_success"
           text == IF Strip(ragText) = "" THEN EmptyResponse ELSE ragText
           status == IF sources = <<>> /\ status0 # "no_context_found"
                     THEN "llm_fallback" ELSE status0
       IN Returned(text, status = "no_context_found", sources, q.words + SplitLen(text),
                   status, TRUE, FALSE)

\* an inner handler that reports a failed search as a plain fallback
VectorExceptAsFallback(r, llm) ==
  LET response == query_llm_only(llm)
  IN IF response.raised THEN QueryRaised(TRUE)
     ELSE Returned(response.response, FALSE, <<>>, 0, "llm_fallback", TRUE, TRUE)

\* lines 215-223: the except of the inner try
VectorExcept(r, llm) ==
  LET response == query_llm_only(llm)
  IN IF response.raised THEN QueryRaised(TRUE)
     ELSE Returned(response.response, FALSE, <<>>, 0, "error", TRUE, TRUE)

\* lines 93-223: the body of the outer try
QueryBody(q, ids, cb, lookup, vec, nodes, ragText, llm) ==
  LET fetch == cb = "given" /\ ids # "some"
  IN IF fetch /\ lookup \in {"missing", "raises"} THEN QueryRaised(FALSE)
     ELSE LET scope == IF fetch THEN (IF lookup = "docs" THEN "some" ELSE "empty") ELSE ids
          IN IF scope # "some"
             THEN LET response == query_llm_only(llm)
                  IN IF response.raised THEN QueryRaised(FALSE)
                     ELSE Returned(response.response, FALSE, <<>>, 0, "no_documents",
                                   FALSE, TRUE)
             ELSE LET r == Retrieve(q, vec, nodes, ragText)
                  IN IF r.raised THEN VectorExcept(r, llm) ELSE r

\* an outer handler that lets the exception go on to the caller
QueryReraise(r, llm) == QueryRaised(r.searched)

\* lines 225-238: the except of the outer try
QueryExcept(r, llm) ==
  LET response == query_llm_only(llm)
  IN IF response.raised
     THEN Returned(UnexpectedError, FALSE, <<>>, 0, "error", r.searched, TRUE)
     ELSE Returned(response.response, FALSE, <<>>, 0, "llm_fallback", r.searched, TRUE)

\* QueryEngine.query
query(q, ids, cb, lookup, vec, nodes, ragText, llm) ==
  LET r == QueryBody(q, ids, cb, lookup, vec, nodes, ragText, llm)
  IN IF r.raised THEN QueryExcept(r, llm) ELSE r

\* the inputs one call of query looks at; an input it does not look at is
\* held at one value
Lookups(ids, cb) ==
  IF cb = "given" /\ ids # "some" THEN {"docs", "nodocs", "missing", "raises"} ELSE {"docs"}

Retrievals ==
  [rag \in BOOLEAN |->
     IF rag
     THEN [q : Queries, vec : {"ok"}, nodes : NodeLists, ragText : {"answer", "", "   "},
           llm : {"unused"}]
          \cup [q : Queries, vec : {"raises"}, nodes : {<<>>}, ragText : {"answer"},
                llm : LlmOutcomes]
     ELSE [q : {[words |-> 8, indicator |-> FALSE]}, vec : {"ok"}, nodes : {<<>>},
           ragText : {"answer"}, llm : LlmOutcomes]]

\* how the document scope of a call was resolved (lines 99-109): given with
\* the call, taken from the chatbot, empty, or not resolved because the
\* chatbot is missing or its lookup raised
Scope(ids, cb, lookup) ==
  IF ids = "some" THEN "explicit"
  ELSE IF cb = "none" THEN "empty"
  ELSE CASE lookup = "docs" -> "chatbot"
         [] lookup = "nodocs" -> "empty"
         [] lookup = "missing" -> "missing"
         [] OTHER -> "raised"

\* One call of query.
Query ==
  \E ids \in {"none", "empty", "some"}, cb \in {"none", "given"} :
    \E lookup \in Lookups(ids, cb) :
      \E in \in Retrievals[ids = "some" \/ (cb = "given" /\ lookup = "docs")] :
        LET r == query(in.q, ids, cb, lookup, in.vec, in.nodes, in.ragText, in.llm)
        IN /\ last' = [op |-> "query", scope |-> Scope(ids, cb, lookup), llm |-> in.llm,
                       vec |-> in.vec,
                       raised |-> r.raised, text |-> r.text, prefixed |-> r.prefixed,
                       sources |-> r.sources, tokens |-> r.tokens, status |-> r.status,
                       searched |-> r.searched,
                       params |-> IF r.searched
                                  THEN RetrievalParams(assess_query_complexity(in.q))
                                  ELSE [top_k |-> 0, cutoff |-> 0]]
           /\ last_sources' = IF r.keep THEN last_sources ELSE r.sources
           /\ UNCHANGED <<backend, docs, rows, conn, ops, settings_llm, tasks>>

NextQuery == Query

SpecQuery == Init /\ [][NextQuery]_vars

(* --------------------------- query complexity --------------------------- *)
MaxWords == 17           \* words in one query text

complex_indicators ==
  {"why", "how", "explain", "describe", "compare", "contrast", "analyze", "relationship",
   "difference"}

\* the words a query is made of: plain ones, indicators in several spellings,
\* a word that merely contains one, and one with punctuation attached
Vocabulary == {"hi", "why", "Why", "HOW", "explain", "show", "why?"}

\* str.lower() of the words that occur
Lower(word) ==
  CASE word = "Why" -> "why"
    [] word = "HOW" -> "how"
    [] OTHER -> word

\* query.split() of a text of n words of which the last is w
QueryTexts ==
  UNION {{[i \in 1..n |-> IF i = n THEN w ELSE "hi"] : w \in Vocabulary} : n \in 1..MaxWords}

\* lines 249-255: len(words), and whether word.lower() of some word is in
\* complex_indicators
Lexical(words) ==
  [words |-> Len(words),
   indicator |-> \E i \in 1..Len(words) : Lower(words[i]) \in complex_indicators]

\* lines 127-137 of query: the complexity of the text and the retrieval
\* parameters chosen for it
Assess ==
  \E text \in QueryTexts :
    LET complexity == assess_query_complexity(Lexical(text))
    IN /\ last' = [op |-> "assess", text |-> text, complexity |-> complexity,
                    params |-> RetrievalParams(complexity)]
       /\ UNCHANGED <<backend, docs, rows, conn, last_sources, ops, settings_llm, tasks>>

NextAssess == Assess

SpecAssess == Init /\ [][NextAssess]_vars

(* ----------------------------- LLM parameters --------------------------- *)
\* the overrides a caller may pass: None or a value of its own
Overrides ==
  [temperature : {NoneInt, 20, 90}, max_tokens : {NoneInt, 256},
   model : {NULL, "llama3-70b-8192"}]

\* QueryEngine.create_service_context: the global Settings.llm is replaced
create_service_context(temperature) ==
  IF temperature # NoneInt THEN Groq(LLM_MODEL, LLM_MAX_TOKENS, temperature)
  ELSE DefaultLlm

\* the client _query_llm_only builds for its call (lines 332-338)
LlmOnlyClient(temperature) ==
  Groq(LLM_MODEL, LLM_MAX_TOKENS,
       IF temperature # NoneInt THEN temperature ELSE LLM_TEMPERATURE)

\* One call of query, as far as the LLM client is concerned.  None of the
\* coroutines query awaits suspends, so a call runs from its first line to
\* its return without another call in between.  path: the scope is empty
\* ("llm_only"), retrieval answers through Settings.llm ("rag"), or the
\* search raises after Settings.llm was set and the LLM-only path answers.
LlmQuery ==
  \E o \in Overrides, path \in {"llm_only", "rag", "rag_error"} :
    LET settings2 == IF path = "llm_only" THEN settings_llm
                     ELSE create_service_context(o.temperature)
        used == IF path = "rag" THEN settings2 ELSE LlmOnlyClient(o.temperature)
    IN /\ settings_llm' = settings2
       /\ last' = [op |-> "llm_query", path |-> path, asked |-> o, used |-> used]
       /\ UNCHANGED <<backend, docs, rows, conn, last_sources, ops, tasks>>

\* QueryEngine(): every construction installs its own client globally
EngineConstruct ==
  /\ settings_llm' = DefaultLlm
  /\ last' = [op |-> "engine"]
  /\ UNCHANGED <<backend, docs, rows, conn, last_sources, ops, tasks>>

\* the settings a chatbot carries (models/chatbot.py ChatbotSettings)
ChatbotSettings ==
  [temperature : {20, 90}, maxTokens : {256, LLM_MAX_TOKENS},
   model : {LLM_MODEL, "llama3-70b-8192", "mock"}]

\* LLMService().generate_response(settings): a new client with the
\* configured defaults, whose temperature and max_tokens are then set from
\* the settings; settings.model only selects the mock answer.
GenerateResponse ==
  \E cs \in ChatbotSettings :
    LET client == Groq(LLM_MODEL, cs.maxTokens, cs.temperature)
    IN /\ last' = [op |-> "generate", asked |-> cs,
                    used |-> IF cs.model = "mock" THEN Groq("mock", 0, 0) ELSE client]
       /\ UNCHANGED <<backend, docs, rows, conn, last_sources, ops, settings_llm, tasks>>

NextLlm ==
  \/ LlmQuery
  \/ EngineConstruct
  \/ GenerateResponse

SpecLlm == Init /\ [][NextLlm]_vars

(* -------------------------------- claims -------------------------------- *)
ProcessOps == {"upload", "url", "api_reindex", "reindex"}
StepIndex(step) == CHOOSE i \in 1..Len(ProcessingStep) : ProcessingStep[i] = step

\* C1: in every reachable state a document whose processingStatus is
\* "completed" has chunkCount > 0 and len(vectorIds) == chunkCount.
C1_CompletedHasChunks ==
  \A d \in DocIds :
    docs[d].status = "completed" =>
      /\ docs[d].chunkCount > 0
      /\ docs[d].vectorIds # NoneIds
      /\ Len(docs[d].vectorIds) = docs[d].chunkCount

\* C2: in every reachable state a document whose processingStatus is
\* "failed" has a non-null error, on every failure path, also when the
\* exception's message is empty.
C2_FailedHasError ==
  \A d \in DocIds : docs[d].status = "failed" => docs[d].error # NULL

\* C3: a reindex that returns leaves no vector-store row of the document that
\* was there before it (delete first, then rerun), and two reindexes in
\* succession yield the same chunkCount.
C3_ReindexResets ==
  [][/\ (last'.op \in {"api_reindex", "reindex"} /\ ~last'.raised)
          => get_document_chunks(rows', last'.doc) \cap rows = {}
     /\ (/\ last.op \in {"api_reindex", "reindex"} /\ ~last.raised
         /\ last'.op \in {"api_reindex", "reindex"} /\ ~last'.raised
         /\ last'.doc = last.doc
         /\ docs[last.doc].status = "completed" /\ docs'[last.doc].status = "completed")
          => docs'[last.doc].chunkCount = docs[last.doc].chunkCount]_vars

\* C4: once delete(D) has completed and D's record is gone, the vector store
\* holds no row of D: get_document_chunks(D) is empty.
C4_CascadeDelete ==
  \A d \in DocIds : docs[d].status = "deleted" => get_document_chunks(rows, d) = {}

\* C5: when a pipeline step failed during processing, the stored
\* processingStats has that step failed with its error message, every step
\* run before it completed, no later step started, and the document is
\* failed with a non-null error.
C5_StepFailureRecorded ==
  (last.op \in ProcessOps /\ last.failedStep # "none") =>
    LET doc == docs[last.doc]
        k == StepIndex(last.failedStep)
    IN /\ doc.steps[last.failedStep].status = "failed"
       /\ doc.steps[last.failedStep].error # NULL
       /\ \A j \in 1..k - 1 :
            doc.steps[ProcessingStep[j]].status =
              IF j = 1 /\ doc.kind \notin FileKinds THEN "none" ELSE "completed"
       /\ \A j \in k + 1..5 : doc.steps[ProcessingStep[j]].status = "none"
       /\ doc.status = "failed"
       /\ doc.error # NULL

C7_QueryNeverRaises ==
  last.op = "query" =>
    /\ ~last.raised
    /\ last.status \in RAGStatus
    /\ last.text \in {"answer", "", "   ", EmptyResponse, LlmTrouble, LlmTroubleLater,
                      UnexpectedError}
    /\ last.tokens \in Nat
    /\ last.sources \in Seq([document_id : DocIds, chunk_id : 1..MaxNodes])
    /\ last.llm = "answer" => (last.text = "answer" /\ last.sources = <<>>)
    /\ last.llm \in {"raises", "none"} => (last.text = LlmTroubleLater /\ last.sources = <<>>)

\* the chatbot lookup raised and so did the LLM call of the fallback
C7_Witness ==
  /\ last.op = "query"
  /\ last.scope = "raised"
  /\ last.llm = "raises"
  /\ last.status = "llm_fallback"
  /\ last.text = LlmTroubleLater

\* C8: a query whose resolved scope is empty (no document_ids, and no chatbot
\* or a chatbot without documents) runs no vector search and returns
\* "no_documents", no sources and a non-empty text, without raising.
C8_EmptyScope ==
  (last.op = "query" /\ last.scope = "empty") =>
    /\ ~last.raised
    /\ ~last.searched
    /\ last.status = "no_documents"
    /\ last.sources = <<>>
    /\ last.text # ""

\* C9: on both backends an insert that meets no connection or server
\* failure excludes exactly the invalid records (wrong dimension, NaN,
\* missing field), stores the others, and returns as many ids as there are
\* valid records.
C9_DimensionInvariant ==
  (last.op = "insert" /\ ~last.fault) =>
    LET valid == SelectSeq(last.batch, ValidRecord)
    IN /\ ~last.raised
       /\ Len(last.ids) = Len(valid)
       /\ RowsOf(valid) \subseteq rows
       /\ \A i \in 1..Len(last.batch) :
            ~ValidRecord(last.batch[i]) => Row(last.batch[i]) \notin rows

\* C10: on both backends a search returns only chunks scoring at least the
\* cutoff in effect, and a search at 0.6 that matches nothing is repeated at
\* 0.4: a corpus whose only match scores 0.5 yields that match.
C10_CutoffRelaxation ==
  (last.op = "search" /\ ~last.raised) =>
    /\ \A h \in last.result : h.score >= last.applied
    /\ (/\ last.cutoff = DefaultCutoff
        /\ \A h \in last.hits : h.score < DefaultCutoff)
         => last.result = {h \in last.hits : h.score >= DefaultCutoff - RelaxStep}

\* the statuses the record went through in the last invocation
StatusPath == <<last.before>> \o last.writes

StatusMoves ==
  {<<"pending", "processing">>, <<"processing", "completed">>, <<"processing", "failed">>,
   <<"completed", "processing">>, <<"failed", "processing">>}

\* "completed" is never written after "failed", nor "failed" after "completed"
NoVerdictReversal(writes) ==
  \A i, j \in 1..Len(writes) :
    i < j => {writes[i], writes[j]} # {"completed", "failed"}

\* C11 as claimed: processingStatus only moves pending -> processing ->
\* completed or failed; a completed or failed record changes only by being
\* reset to processing; one invocation never writes both verdicts.
C11_StatusMachine ==
  last.op \in ProcessOps =>
    /\ \A i \in 1..Len(StatusPath) - 1 :
         \/ StatusPath[i] = StatusPath[i + 1]
         \/ <<StatusPath[i], StatusPath[i + 1]>> \in StatusMoves
    /\ NoVerdictReversal(last.writes)

\* C11 as amended: the same, except that an invocation which fails before it
\* has written "processing" moves the record straight to "failed" with its
\* first status write, from pending or from an earlier verdict.
C11_StatusMachineOrEarlyFailure ==
  last.op \in ProcessOps =>
    /\ \A i \in 1..Len(StatusPath) - 1 :
         \/ StatusPath[i] = StatusPath[i + 1]
         \/ <<StatusPath[i], StatusPath[i + 1]>> \in StatusMoves
         \/ i = 1 /\ StatusPath[2] = "failed"
    /\ NoVerdictReversal(last.writes)

\* a reindex of a completed document: reset to processing, then a verdict
C11_Witness ==
  /\ last.op = "reindex"
  /\ last.before = "completed"
  /\ last.writes = <<"processing", "failed">>

\* C12: after a process or reindex run that reports success the record is
\* completed, chunkCount and vectorIds are those of this run's chunks, and
\* error is null, whatever an earlier run left in the record.
C12_SuccessRecord ==
  (last.op \in ProcessOps /\ last.ret = "ok") =>
    LET doc == docs[last.doc]
    IN /\ doc.status = "completed"
       /\ doc.chunkCount = Len(last.chunks)
       /\ doc.vectorIds = last.chunks
       /\ doc.error = NULL

\* the first attempt to delete the given kind of thing, 0 when there is none
FirstDeletion(kind) ==
  LET at == {i \in 1..Len(last.deletes) : last.deletes[i][1] = kind}
  IN IF at = {} THEN 0 ELSE CHOOSE i \in at : \A j \in at : i <= j

\* C13: delete(document_id) deletes vector rows, then the backing file, then
\* the record; a failed file deletion does not abort: when nothing else
\* failed the record is deleted all the same.
C13_BestEffortFileDelete ==
  last.op = "api_delete" =>
    LET v == FirstDeletion("vectors")
        f == FirstDeletion("file")
        rec == FirstDeletion("record")
    IN /\ (v > 0 /\ f > 0) => v < f
       /\ (f > 0 /\ rec > 0) => f < rec
       /\ (v > 0 /\ rec > 0) => v < rec
       /\ (/\ \E i \in 1..Len(last.deletes) : last.deletes[i] = <<"file", FALSE>>
           /\ \A i \in 1..Len(last.deletes) :
                last.deletes[i][1] # "file" => last.deletes[i][2] = TRUE)
            => (~last.raised /\ docs[last.doc].status = "deleted")

\* C14: in both backends delete_by_document_id raises nothing; every
\* failure, a failed reconnect included, is the return value false.
C14_DeleteNeverRaises ==
  last.op = "delete" => (~last.raised /\ last.ret \in BOOLEAN)

\* C15: constructing (initializing) the vector store when the collection
\* exists leaves every stored record in place, in both backends.
C15_InitIdempotent ==
  [][last'.op = "construct" => rows' = rows]_vars

\* C18: within one processing invocation the metadata fetch, the download
\* and the final status write are each attempted at most max_retries times,
\* and chunking, embedding and the storage insert at most once.
C18_BoundedScopedRetries ==
  last.op \in ProcessOps =>
    /\ last.tries.get <= max_retries
    /\ last.tries.download <= max_retries
    /\ last.tries.final <= max_retries
    /\ last.tries.chunk <= 1
    /\ last.tries.embed <= 1
    /\ last.tries.insert <= 1

\* the word is one of the keywords, in whatever case it is written
IsKeyword(word) == Lower(word) \in complex_indicators

C17_SearchFailureHandled ==
  last.op = "query" =>
    /\ (last.searched /\ last.vec = "raises") =>
         /\ ~last.raised
         /\ last.status = "error"
         /\ last.sources = <<>>
         /\ last.text = query_llm_only(last.llm).response
    /\ last.scope \in {"missing", "raised"} =>
         /\ ~last.raised
         /\ last.status = "llm_fallback"
         /\ last.sources = <<>>
         /\ last.text = query_llm_only(last.llm).response

\* the search raised and the LLM-only path gave the answer
C17_Witness ==
  /\ last.op = "query"
  /\ last.searched
  /\ last.vec = "raises"
  /\ last.llm = "answer"
  /\ last.status = "error"
  /\ last.text = "answer"
  /\ last.sources = <<>>

\* C19: not-found is terminal: when the chatbot a query names does not
\* exist, the call fails at that lookup and its caller is told so, by an
\* exception or an error status.
C19_NotFoundSurfaced ==
  (last.op = "query" /\ last.scope = "missing") =>
    (last.raised \/ last.status = "error")

\* what a call asks for: its override, or the configured default
Effective(o) ==
  Groq(IF o.model = NULL THEN LLM_MODEL ELSE o.model,
       IF o.max_tokens = NoneInt THEN LLM_MAX_TOKENS ELSE o.max_tokens,
       IF o.temperature = NoneInt THEN LLM_TEMPERATURE ELSE o.temperature)

\* C20: the LLM invocation of every query call runs with the temperature,
\* max_tokens and model passed to that call, whatever calls came before and
\* whatever they left in Settings.llm.
C20_PerCallParameters ==
  last.op = "llm_query" => last.used = Effective(last.asked)

\* the last invocation marked the step with the status
Marked(step, status) ==
  \E i \in 1..Len(last.marks) : last.marks[i] = <<step, status>>

\* C21: when the content of a document is empty or only whitespace and the
\* text extraction runs on it, the text_extraction step is marked failed, the
\* document ends failed, and chunking is never started, for every kind of
\* source.
C21_EmptyTextFailsExtraction ==
  (/\ last.op \in ProcessOps
   /\ docs[last.doc].text \in {"empty", "blank"}
   /\ Marked("text_extraction", "in_progress"))
    => /\ Marked("text_extraction", "failed")
       /\ docs[last.doc].status = "failed"
       /\ ~Marked("chunking", "in_progress")

\* the cutoffs of the last search at which a relaxation step was taken
RelaxedFrom ==
  {c \in last.applied + 1..last.cutoff : (last.cutoff - c) % RelaxStep = 0}

\* C22: a search relaxes its cutoff only when no hit passes it and it is
\* above the floor 0.4, in steps of 0.2; the cutoff applied to the results is
\* never below the floor; every search ends after finitely many relaxations.
C22_RelaxationBoundedByFloor ==
  (last.op = "search" /\ ~last.raised) =>
    /\ (last.cutoff - last.applied) % RelaxStep = 0
    /\ last.applied <= last.cutoff
    /\ \A c \in RelaxedFrom :
         /\ c > RelaxFloor
         /\ \A h \in last.hits : h.score < c
    /\ last.applied >= RelaxFloor

\* the status the step has just before the i-th mark of the last invocation
LastMark(step, i) ==
  LET at == {j \in 1..i - 1 : last.marks[j][1] = step}
  IN IF at = {} THEN "none" ELSE last.marks[CHOOSE j \in at : \A k \in at : k <= j][2]

\* at most one step is in_progress after each mark, and cleanup is started
\* only when none of steps 2-5 is running, and none of them is marked later
OneAtATimeCleanupLast ==
  /\ \A i \in 1..Len(last.marks) :
       last.marks[i][2] = "in_progress" =>
         \A s \in StepNames \ {last.marks[i][1]} : LastMark(s, i) # "in_progress"
  /\ \A i \in 1..Len(last.marks) :
       last.marks[i] = <<"cleanup", "in_progress">> =>
         /\ \A k \in 2..5 : LastMark(ProcessingStep[k], i) \in {"none", "completed", "failed"}
         /\ \A j \in i + 1..Len(last.marks) : last.marks[j][1] = "cleanup"

C24_AllInvalidFailsStorage ==
  (/\ last.op \in ProcessOps
   /\ Marked("storage", "in_progress")
   /\ docs[last.doc].bad = 1..docs[last.doc].n
   /\ get_document_chunks(rows, last.doc) = {})
    => /\ Marked("storage", "failed")
       /\ docs[last.doc].status # "completed"

\* the last call of insert or search on the Milvus client
MilvusCall == last.op \in {"insert", "search"} /\ backend = "zilliz"

\* it had something to do on the collection although the client was not connected
CalledDisconnected == ~last.was /\ (last.op = "insert" => last.batch # <<>>)

\* it called collection.insert or collection.search
TouchedCollection == IF last.op = "insert" THEN last.attempts > 0 ELSE last.calls > 0

\* every connect makes at most max_retries attempts; a call on a disconnected
\* client reconnects first and goes on to the collection only when that
\* succeeded, otherwise it raises without touching the collection
BoundedReconnectFirst ==
  /\ \A i \in 1..Len(last.connects) : last.connects[i].n \in 1..max_retries
  /\ CalledDisconnected =>
       /\ last.connects # <<>>
       /\ TouchedCollection => last.connects[1].ok
       /\ ~last.connects[1].ok => (last.raised /\ ~TouchedCollection)

\* whether the most recent connect attempt succeeded
LastConnectOk ==
  IF last.connects = <<>> THEN last.was ELSE last.connects[Len(last.connects)].ok

\* C25 as claimed: bounded connect attempts, reconnect before an insert or
\* search on a disconnected client, and connection_established true exactly
\* when the most recent connect attempt succeeded and no operation failed
\* after it.
C25_ConnectionFlagExact ==
  MilvusCall =>
    /\ BoundedReconnectFirst
    /\ conn = (LastConnectOk /\ ~(last.op = "insert" /\ last.raised))

\* C25 as amended: the same, with connection_established following the
\* connect attempts alone: a failed insert leaves it as it is, a failed
\* search ends with one more connect attempt whose outcome it takes.
C25_ConnectionFlagFollowsConnects ==
  MilvusCall =>
    /\ BoundedReconnectFirst
    /\ conn = LastConnectOk
    /\ (last.op = "search" /\ last.raised) =>
         last.connects[Len(last.connects)].n = 1

\* an insert on a disconnected client whose reconnect succeeded at the third
\* attempt and which then stored its records
C25_Witness ==
  /\ MilvusCall
  /\ last.op = "insert"
  /\ ~last.was
  /\ last.connects = <<[n |-> max_retries, ok |-> TRUE]>>
  /\ last.ids # <<>>
  /\ conn

\* C26: after every call of query the engine's last_sources is the list of
\* sources that call returned; a call that returns no sources leaves none of
\* an earlier call behind.
C26_LastSourcesOfLastCall ==
  last.op = "query" => last_sources = last.sources

\* the vectorIds a record holds, none when the field is null
RecordedIds(doc) == IF doc.vectorIds = NoneIds THEN <<>> ELSE doc.vectorIds

\* C27: when a processing run ends with the document completed, the recorded
\* vectorIds are exactly the ids insert returned in this run, each of them
\* identifies a stored row of the document, and chunkCount is the number of
\* rows stored.
C27_VectorIdsAreStoredRows ==
  (last.op \in ProcessOps /\ docs[last.doc].status = "completed") =>
    LET doc == docs[last.doc]
    IN /\ RecordedIds(doc) = last.inserted
       /\ \A i \in 1..Len(RecordedIds(doc)) :
            [id |-> RecordedIds(doc)[i], doc |-> last.doc] \in rows
       /\ doc.chunkCount = Len(last.inserted)

\* C28: processing, reindexing or deleting a document, the construction of
\* the processor and of its vector-store client included, leaves the rows of
\* every other document in the store.
C28_OtherDocumentsUntouched ==
  OtherRows \subseteq rows

\* C29: when a processing invocation has returned, the stored
\* processingStatus of its document is completed or failed, also when a write
\* of a step status or of the final status failed on the way.
C29_EndsWithVerdict ==
  last.op \in ProcessOps => docs[last.doc].status \in {"completed", "failed"}

\* both invocations have returned
BothDone == \A t \in Tasks : tasks[t].pc = "done"

\* C30: when two process/reindex invocations on one document have run
\* interleaved at their suspension points, the store holds each chunk of the
\* document once, and the record's chunkCount and vectorIds are those of the
\* rows stored for it.
C30_NoDuplicatesUnderInterleaving ==
  BothDone =>
    \A d \in DocIds :
      LET stored == get_document_chunks(rows, d)
      IN /\ Cardinality(stored) <= docs[d].n
         /\ docs[d].chunkCount = Cardinality(stored)
         /\ {RecordedIds(docs[d])[i] : i \in 1..Len(RecordedIds(docs[d]))}
              = {r.id : r \in stored}

====
